---- MODULE Spec2Model ----
(***************************************************************************)
(* Model of the mail-processing pipeline of email_bot:                     *)
(*   services/email_manager.py  EmailManager (poll loop, routing, stop)    *)
(*   services/gemini_client.py  GeminiClient (classify, extract, retries)  *)
(*   services/imap_client.py    ImapClient   (mailbox capability)          *)
(*   services/tg_bot.py, services/tg_client.py  (the two notifiers)        *)
(*                                                                         *)
(* A text is a sequence of one-character strings.  A token longer than one *)
(* character stands for a run of characters that holds no whitespace and   *)
(* no backtick (a JSON document body, a language tag); such a run is never *)
(* placed before index 3 of a text the fence test looks at, so the index   *)
(* arithmetic of _clean_dirty_json is the code's.                          *)
(***************************************************************************)
EXTENDS Integers, Sequences, FiniteSets, TLC

(* ---------------------------------------------------------------- bounds *)
MaxMsgs == 2
MaxIter == 3

(* ------------------------------------------------------- text primitives *)
\* the backtick character (written as a name: the lexer reserves the character)
BT == "BACKTICK"
NL == "\n"
SP == " "

IsSpace(c) == c \in {SP, NL}

SetMax(S) == CHOOSE x \in S : \A y \in S : y <= x
SetMin(S) == CHOOSE x \in S : \A y \in S : x <= y

RECURSIVE LStrip(_)
LStrip(s) == IF s # <<>> /\ IsSpace(Head(s)) THEN LStrip(Tail(s)) ELSE s

RECURSIVE RStrip(_)
RStrip(s) ==
    IF s # <<>> /\ IsSpace(s[Len(s)]) THEN RStrip(SubSeq(s, 1, Len(s) - 1)) ELSE s

\* str.strip()
Strip(s) == RStrip(LStrip(s))

UpperLower ==
    { <<"A", "a">>, <<"B", "b">>, <<"C", "c">>, <<"D", "d">>, <<"E", "e">>,
      <<"F", "f">>, <<"G", "g">>, <<"H", "h">>, <<"I", "i">>, <<"J", "j">>,
      <<"K", "k">>, <<"L", "l">>, <<"M", "m">>, <<"N", "n">>, <<"O", "o">>,
      <<"P", "p">>, <<"Q", "q">>, <<"R", "r">>, <<"S", "s">>, <<"T", "t">>,
      <<"U", "u">>, <<"V", "v">>, <<"W", "w">>, <<"X", "x">>, <<"Y", "y">>,
      <<"Z", "z">> }

LowerChar(c) ==
    IF \E p \in UpperLower : p[1] = c
    THEN (CHOOSE p \in UpperLower : p[1] = c)[2]
    ELSE c

\* str.lower()
Lower(s) == [i \in 1..Len(s) |-> LowerChar(s[i])]

\* s[a:b] for 0 <= a and 0 <= b <= len(s)
Slice(s, a, b) == IF a >= b THEN <<>> ELSE SubSeq(s, a + 1, b)

\* s.startswith(three backticks)
StartsWithFence(s) == Len(s) >= 3 /\ s[1] = BT /\ s[2] = BT /\ s[3] = BT

\* s.rfind(three backticks): the greatest 0-based index where they start, or -1
RFindFence(s) ==
    LET hits == { i \in 0..(Len(s) - 3) :
                    s[i + 1] = BT /\ s[i + 2] = BT /\ s[i + 3] = BT }
    IN  IF hits = {} THEN -1 ELSE SetMax(hits)

\* s.find("\n", start): the least 0-based index >= start holding "\n", or -1
FindNewline(s, start) ==
    LET hits == { i \in start..(Len(s) - 1) : s[i + 1] = NL }
    IN  IF hits = {} THEN -1 ELSE SetMin(hits)

\* pat in s
RECURSIVE Contains(_, _)
Contains(pat, s) ==
    IF Len(pat) > Len(s) THEN FALSE
    ELSE IF SubSeq(s, 1, Len(pat)) = pat THEN TRUE
    ELSE Contains(pat, Tail(s))

(* ------------------------------------------------------------ categories *)
ALERT == "alert"
PAYMENT == "payment"
MESSAGE == "message"
SUPPORT == "support"
NOTICE == "notice"
OTHER_ == "other"
IMPORTANT == "important"

EmailCategory == {ALERT, PAYMENT, MESSAGE, SUPPORT, NOTICE, OTHER_, IMPORTANT}

\* the value string of each member of the enumeration
CategoryValue(c) ==
    CASE c = ALERT     -> <<"a", "l", "e", "r", "t">>
      [] c = PAYMENT   -> <<"p", "a", "y", "m", "e", "n", "t">>
      [] c = MESSAGE   -> <<"m", "e", "s", "s", "a", "g", "e">>
      [] c = SUPPORT   -> <<"s", "u", "p", "p", "o", "r", "t">>
      [] c = NOTICE    -> <<"n", "o", "t", "i", "c", "e">>
      [] c = OTHER_     -> <<"o", "t", "h", "e", "r">>
      [] c = IMPORTANT -> <<"i", "m", "p", "o", "r", "t", "a", "n", "t">>

ValueError == "ValueError"

\* EmailCategory(value): lookup by value, ValueError when no member has it
EmailCategoryByValue(s) ==
    IF \E c \in EmailCategory : CategoryValue(c) = s
    THEN CHOOSE c \in EmailCategory : CategoryValue(c) = s
    ELSE ValueError

(* ----------------------------------------------------------- JSON values *)
\* the value of a key of a parsed object: absent, null, a number or a string
Absent == [t |-> "absent", s |-> <<>>]
Null == [t |-> "null", s |-> <<>>]
Str(s) == [t |-> "str", s |-> s]

NoPay == [currency |-> "absent", payment_type |-> "absent",
          amount |-> "absent", item |-> "absent"]

\* a parsed document: an object with its keys, or a value of another type
JValue(kind, cat, reasoning, pay) ==
    [kind |-> kind, category |-> cat, reasoning |-> reasoning, pay |-> pay]
JObject(cat, reasoning, pay) == JValue("object", cat, reasoning, pay)
JArray == JValue("array", Absent, Absent, NoPay)
JNumber == JValue("number", Absent, Absent, NoPay)
JString == JValue("string", Absent, Absent, NoPay)
JSONDecodeError == JValue("error", Absent, Absent, NoPay)

\* the empty dict {}
EmptyDict == JObject(Absent, Absent, NoPay)

InvoicePay == [currency |-> "USD", payment_type |-> "goods",
               amount |-> "12.5", item |-> "Widget"]
PartialPay == [currency |-> "null", payment_type |-> "null",
               amount |-> "42", item |-> "absent"]

\* The JSON documents the upstream is taken to produce, each with its parse.
JsonDocs ==
    { [text |-> <<"{category:payment,reasoning:r}">>,
       value |-> JObject(Str(CategoryValue(PAYMENT)), Str(<<"r">>), NoPay)],
      [text |-> <<"{category:NOTICE}">>,
       value |-> JObject(Str(<<"N", "O", "T", "I", "C", "E">>), Absent, NoPay)],
      [text |-> <<"{", NL, "category:important", NL, "}">>,
       value |-> JObject(Str(CategoryValue(IMPORTANT)), Absent, NoPay)],
      [text |-> <<"{category:_alert_}">>,
       value |-> JObject(Str(<<SP, "a", "l", "e", "r", "t", SP>>), Absent, NoPay)],
      [text |-> <<"{category:spam}">>,
       value |-> JObject(Str(<<"s", "p", "a", "m">>), Absent, NoPay)],
      [text |-> <<"{category:null}">>, value |-> JObject(Null, Absent, NoPay)],
      [text |-> <<"{reasoning:r}">>,
       value |-> JObject(Absent, Str(<<"r">>), NoPay)],
      [text |-> <<"{}">>, value |-> EmptyDict],
      [text |-> <<"{currency:USD,amount:12.5,payment_type:goods,item:Widget}">>,
       value |-> JObject(Absent, Absent, InvoicePay)],
      [text |-> <<"{currency:null,payment_type:null,amount:42}">>,
       value |-> JObject(Absent, Absent, PartialPay)],
      [text |-> <<"[1,2]">>, value |-> JArray],
      [text |-> <<"12.5">>, value |-> JNumber],
      [text |-> <<"qalertq">>, value |-> JString] }

\* json.loads(s): surrounding whitespace is allowed, anything else that is not
\* a document raises JSONDecodeError
JsonLoads(s) ==
    LET t == Strip(s)
    IN  IF \E d \in JsonDocs : d.text = t
        THEN (CHOOSE d \in JsonDocs : d.text = t).value
        ELSE JSONDecodeError

(* -------------------------------------------------------- GeminiClient *)
MAX_ATTEMPTS == 5

\* response.text: None, or a string
NoneText == [none |-> TRUE, text |-> <<>>]
Text(t) == [none |-> FALSE, text |-> t]

\* `not x` for x a string or None
Falsy(x) == x.none \/ x.text = <<>>

\* _clean_dirty_json: strip, drop a fenced code block's markers, json.loads
CleanDirtyJson(response_text) ==
    LET stripped == Strip(response_text)
        end_marker == RFindFence(stripped)
        cleaned_response ==
            IF StartsWithFence(stripped) /\ end_marker > 3
            THEN Strip(Slice(stripped, FindNewline(stripped, 3) + 1, end_marker))
            ELSE stripped
    IN  JsonLoads(cleaned_response)

\* what one upstream call does: it raises, or it returns a response whose
\* text is None or a string
Raises == [kind |-> "raise", text |-> NoneText]
Response(x) == [kind |-> "response", text |-> x]

Return(x) == [tag |-> "return", val |-> x]
Except == [tag |-> "except", val |-> NoneText]

\* the debug branch of _generate_content (lines 140-146): parse the text,
\* read "category" and lower it; any exception is caught by the loop
DebugCategory(response_text) ==
    LET response_json == CleanDirtyJson(response_text)
    IN  IF response_json.kind # "object" THEN Except
        ELSE IF response_json.category.t = "absent" THEN Return(Text(<<>>))
        ELSE IF response_json.category.t # "str" THEN Except
        ELSE Return(Text(Lower(response_json.category.s)))

\* one pass of the body of the retry loop of _generate_content
GenerateOnce(outcome, payment, dbg) ==
    IF outcome.kind = "raise" THEN Except
    ELSE IF payment THEN Return(outcome.text)
    ELSE IF Falsy(outcome.text) THEN Return(NoneText)
    ELSE IF dbg THEN DebugCategory(outcome.text.text)
    ELSE Return(outcome.text)

\* variant: the response is lowered but not stripped
ExtractCategoryFromResponse_NoStrip(response) ==
    IF response = <<>> THEN OTHER_
    ELSE LET cleaned_text == Lower(response)
             category == EmailCategoryByValue(cleaned_text)
         IN  IF category = ValueError THEN OTHER_ ELSE category

\* _extract_category_from_response
ExtractCategoryFromResponse(response) ==
    IF response = <<>> THEN OTHER_
    ELSE LET cleaned_text == Lower(Strip(response))
             category == EmailCategoryByValue(cleaned_text)
         IN  IF category = ValueError THEN OTHER_ ELSE category

\* variant: the enumeration lookup with no handler around it
ClassifyEmail_NoFallback(response) ==
    IF Falsy(response) THEN OTHER_
    ELSE EmailCategoryByValue(Lower(Strip(response.text)))

\* variant: an empty response is filed as important
ClassifyEmail_EmptyIsImportant(response) ==
    IF Falsy(response) THEN IMPORTANT
    ELSE LET category == ExtractCategoryFromResponse(response.text)
         IN  IF category = ValueError THEN OTHER_ ELSE category

\* classify_email, from the value _generate_content returned
ClassifyEmail(response) ==
    IF Falsy(response) THEN OTHER_
    ELSE LET category == ExtractCategoryFromResponse(response.text)
         IN  IF category = ValueError THEN OTHER_ ELSE category

\* variant: the parsed value is returned without the isinstance test
ExtractPaymentDataFromResponse_NoTypeTest(response) ==
    LET cleaned_response == CleanDirtyJson(response)
    IN  IF cleaned_response.kind = "error" THEN EmptyDict ELSE cleaned_response

\* _extract_payment_data_from_response
ExtractPaymentDataFromResponse(response) ==
    LET cleaned_response == CleanDirtyJson(response)
    IN  IF cleaned_response.kind = "error" THEN EmptyDict
        ELSE IF cleaned_response.kind # "object" THEN EmptyDict
        ELSE cleaned_response

\* extract_payment_data, from the value _generate_content returned
ExtractPaymentData(response) ==
    IF Falsy(response) THEN EmptyDict
    ELSE ExtractPaymentDataFromResponse(response.text)

(* --------------------------------------------- what the upstream may say *)
Fenced(lang, nl, body) ==
    <<BT, BT, BT>> \o lang \o nl \o body \o <<NL, BT, BT, BT>>

PlainTexts ==
    { CategoryValue(c) : c \in EmailCategory }
    \cup { <<SP, "N", "o", "t", "i", "c", "e", NL>>,
           <<"A", "L", "E", "R", "T">>,
           <<NL, SP, "P", "a", "y", "m", "e", "n", "t", SP>>,
           <<"a", "l", "e", "r", "t", "s">>,
           <<"a", "l", SP, "e", "r", "t">>,
           <<"s", "p", "a", "m">>,
           <<SP>> }

JsonTexts ==
    { d.text : d \in JsonDocs }
    \cup { Fenced(<<"json">>, <<NL>>, <<"{category:payment,reasoning:r}">>),
           Fenced(<<>>, <<NL>>, <<"{category:NOTICE}">>),
           Fenced(<<"json">>, <<NL>>,
                  <<"{currency:USD,amount:12.5,payment_type:goods,item:Widget}">>),
           Fenced(<<"json">>, <<SP>>, <<"{category:spam}">>),
           Fenced(<<>>, <<>>,
                  <<"{currency:USD,amount:12.5,payment_type:goods,item:Widget}">>),
           <<"{category:">>,
           <<BT, BT, BT, BT, BT, BT>> }

UpstreamOutcomes ==
    { Raises, Response(NoneText), Response(Text(<<>>)) }
    \cup { Response(Text(t)) : t \in PlainTexts \cup JsonTexts }

(* ------------------------------------------------------------ the state *)
GOOGLE == "google"
YANDEX == "yandex"
Accounts == {GOOGLE, YANDEX}
OtherProvider(a) == IF a = GOOGLE THEN YANDEX ELSE GOOGLE

Ids == 1..MaxMsgs

\* the allow-listed substring of _process_single_email
PIONER == <<"p", "i", "o", "n", "e", "r">>

\* the From headers the mailbox is taken to hold
Senders ==
    { <<"b", "o", "b", "@", "p", "i", "o", "n", "e", "r", ".", "r", "u">>,
      <<"A", "n", "n", SP, "<", "a", "@", "x", ".", "i", "o", ">">>,
      <<"P", "i", "o", "n", "e", "r", "@", "x", ".", "i", "o">> }

\* what _decode_header hands back for Subject and From: a str, or (line 194,
\* after a header with raw 8-bit bytes failed to decode) the Header object
HeaderTypes == {"str", "Header"}

NoEmail == [id |-> 0, from |-> <<>>, headers |-> "str"]

\* exception classes: all but KeyboardInterrupt derive from Exception
TypeError == "TypeError"
IMAP4Abort == "IMAP4.abort"
AttributeError == "AttributeError"
KeyboardInterruptExc == "KeyboardInterrupt"
NoExc == "none"
IsException(e) == e \in {TypeError, IMAP4Abort, AttributeError}

VARIABLES
    pc,                \* where the thread running start() is
    is_running,        \* EmailManager.is_running
    current_provider,  \* EmailManager.current_provider
    imap,              \* per account: ImapClient.imap and its session state
    unseen,            \* per account: the IDs the server holds unflagged
    debug,             \* GeminiClient.debug
    iter,              \* completed loop iterations
    email_ids,         \* _process_emails: the listing being drained
    idx,               \* _process_emails: position in email_ids (from 1)
    email_data,        \* _process_emails: the fetched message
    classification,    \* _process_single_email: the category
    payment_data,      \* _process_single_email: the extracted record
    is_payment,        \* _generate_content: the is_payment argument
    attempt,           \* _generate_content: passes of the loop completed
    trace,             \* history: calls made for the message in hand
    upstream_calls,    \* history: upstream calls of the invocation in hand
    backoffs,          \* history: time.sleep(3) calls of that invocation
    sent_record,       \* history: the record last given to send_payment_data
    upstream_said,     \* history: what the last upstream call did (client runs)
    iter_fetches,      \* history: get_email_by_id calls of this iteration
    abandoned,         \* history: a fetched message was left without mark_as_read
    connected,         \* history: per account, what connect() returned
    tg_started,        \* start(): what tg_bot.start() returned to the test of line 71
    read,              \* history: per account, the IDs mark_as_read has flagged
    fetch_fails,       \* history: per account and ID, fetches that gave None (counted runs)
    deliveries,        \* history: per account and ID, send and mark_as_read calls (counted runs)
    exc,               \* history: the exception that ended the try block of start()
    raised,            \* the exception on its way out of start() or stop()
    stops,             \* history: stop() calls the main thread has finished
    logouts,           \* history: per account, logout() calls on its session
    error_sent,        \* history: main() has called send_error_message
    spc,               \* where a thread that calls stop() from outside is
    sraised            \* the exception that left that thread's stop()

vars == <<pc, is_running, current_provider, imap, unseen, debug, iter,
          email_ids, idx, email_data, classification, payment_data,
          is_payment, attempt, trace, upstream_calls, backoffs, sent_record,
          upstream_said, iter_fetches, abandoned, connected, tg_started, read,
          fetch_fails, deliveries, exc, raised, stops, logouts, error_sent, spc, sraised>>

mgrVars == <<is_running, current_provider>>
boxVars == <<imap, unseen>>
loopVars == <<email_ids, idx, email_data>>
msgVars == <<classification, payment_data>>
genVars == <<is_payment, attempt, upstream_calls, backoffs>>
histVars == <<trace, sent_record, iter_fetches, abandoned>>
allHist == <<histVars, upstream_said>>
startHist == <<connected, tg_started>>
excVars == <<exc, raised, error_sent>>
stopHist == <<stops, logouts>>
otherVars == <<spc, sraised>>
runHist == <<startHist, read, fetch_fails, deliveries, excVars, stopHist, otherVars>>

\* hasattr(self, '<provider>_imap_client'): __init__ sets both attributes
HasAttr(a) == a \in Accounts

\* ascending listing of a set of IDs (the server lists by sequence number)
RECURSIVE SortedSeq(_)
SortedSeq(S) ==
    IF S = {} THEN <<>> ELSE <<SetMin(S)>> \o SortedSeq(S \ {SetMin(S)})

Mailboxes == { {}, Ids }

\* no upstream call observed
NoOutcome == [kind |-> "none", text |-> NoneText]

\* nothing sent and no mark_as_read call made for an ID yet
NoDeliveries == [notify |-> 0, mark |-> 0, mark_false |-> 0]

Init ==
    /\ pc = "idle"
    /\ is_running = FALSE
    /\ current_provider = YANDEX
    /\ imap = [a \in Accounts |-> "none"]
    /\ unseen \in [Accounts -> Mailboxes]
    /\ debug = FALSE    \* config.MODE /= "DEV"; the DEV branch runs in SpecClient
    /\ iter = 0
    /\ email_ids = <<>>
    /\ idx = 0
    /\ email_data = NoEmail
    /\ classification = "none"
    /\ payment_data = EmptyDict
    /\ is_payment = FALSE
    /\ attempt = 0
    /\ trace = <<>>
    /\ upstream_calls = 0
    /\ backoffs = 0
    /\ sent_record = EmptyDict
    /\ upstream_said = NoOutcome
    /\ iter_fetches = 0
    /\ abandoned = FALSE
    /\ connected = [a \in Accounts |-> "untried"]
    /\ tg_started = "untried"
    /\ read = [a \in Accounts |-> {}]
    /\ fetch_fails = [a \in Accounts |-> [i \in Ids |-> 0]]
    /\ deliveries = [a \in Accounts |-> [i \in Ids |-> NoDeliveries]]
    /\ exc = NoExc
    /\ raised = NoExc
    /\ stops = 0
    /\ logouts = [a \in Accounts |-> 0]
    /\ error_sent = FALSE
    /\ spc = "off"
    /\ sraised = NoExc

(* ----------------------------------------------------------- ImapClient *)
\* connect(): IMAP4_SSL may raise (imap stays None), login may raise (imap
\* holds the unauthenticated session), or both succeed
ConnectResult == {"ok", "login_failed", "unreachable"}
Connect(a, r) ==
    /\ imap' = [imap EXCEPT ![a] = CASE r = "ok" -> "auth"
                                     [] r = "login_failed" -> "nonauth"
                                     [] r = "unreachable" -> @]
    /\ connected' = [connected EXCEPT ![a] = IF r = "ok" THEN "yes" ELSE "no"]

\* the session answers commands that need authentication
Usable(a) == imap[a] = "auth"

\* disconnect(), lines 46-66. noop() answers OK or NO on an open session and
\* raises on one that is logged out or lost (or, when another thread has set
\* imap to None meanwhile, with AttributeError); logout() may raise as well
NoopResults == {"OK", "NO", IMAP4Abort, AttributeError}
LogoutResults == {"BYE", IMAP4Abort}
DisconnectResult == [noop : NoopResults, logout : LogoutResults]

\* variant: the handlers name the IMAP errors only
DisconnectCatches_ImapOnly(e) == e = IMAP4Abort

\* lines 58 and 63: both handlers are `except Exception`
DisconnectCatches(e) == IsException(e)

\* variant: logout() is called without the noop() probe
DisconnectOutcome_NoProbe(s, r) ==
    IF s = "none"
    THEN [imap |-> "none", logouts |-> 0, exc |-> NoExc]
    ELSE IF s \in {"auth", "nonauth"} /\ r.logout = "BYE"
    THEN [imap |-> "closed", logouts |-> 1, exc |-> NoExc]
    ELSE [imap |-> "none", logouts |-> 1, exc |-> NoExc]

\* one call of disconnect() on a session in state s: the state it leaves, the
\* logout() calls it made, and the exception that leaves it
DisconnectOutcome(s, r) ==
    LET noop == IF s \in {"auth", "nonauth"} THEN r.noop
                ELSE IF r.noop = AttributeError THEN AttributeError
                ELSE IMAP4Abort
        left(e) == IF DisconnectCatches(e) THEN NoExc ELSE e
    IN  IF s = "none"
        THEN [imap |-> "none", logouts |-> 0, exc |-> NoExc]
        ELSE IF noop = "NO"
        THEN [imap |-> s, logouts |-> 0, exc |-> NoExc]
        ELSE IF noop # "OK"
        THEN [imap |-> "none", logouts |-> 0, exc |-> left(noop)]
        ELSE IF r.logout # "BYE"
        THEN [imap |-> "none", logouts |-> 1, exc |-> left(r.logout)]
        ELSE [imap |-> "closed", logouts |-> 1, exc |-> NoExc]

Disconnect(a, r) ==
    LET out == DisconnectOutcome(imap[a], r)
    IN  /\ imap' = [imap EXCEPT ![a] = out.imap]
        /\ logouts' = [logouts EXCEPT ![a] = @ + out.logouts]

(* ------------------------------------------------- frames and their end *)
\* the locals of _generate_content and its counters, as a call starts
GenFresh(payment) ==
    /\ is_payment' = payment
    /\ attempt' = 0
    /\ upstream_calls' = 0
    /\ backoffs' = 0

\* the locals of _process_single_email, gone when it returns
MsgFresh ==
    /\ classification' = "none"
    /\ payment_data' = EmptyDict

\* the locals of _process_emails, gone when it returns or is unwound
FramesGone ==
    /\ email_ids' = <<>>
    /\ idx' = 0
    /\ email_data' = NoEmail
    /\ MsgFresh
    /\ GenFresh(FALSE)
    /\ trace' = <<>>
    /\ sent_record' = EmptyDict
    /\ iter_fetches' = 0

\* start() lines 97-100: the handlers of the try block
StartCatches(e) == e = KeyboardInterruptExc \/ IsException(e)

\* an exception e leaves the loop body: no frame below start() handles it,
\* the handlers of lines 97-100 take it or not, and finally runs stop()
Unwind(e) ==
    /\ exc' = e
    /\ raised' = IF StartCatches(e) THEN NoExc ELSE e
    /\ pc' = "finally"
    /\ FramesGone

(* --------------------------------------------------- EmailManager.start *)
\* lines 53-57
ConnectGoogle ==
    /\ pc = "idle"
    /\ \E r \in ConnectResult : Connect(GOOGLE, r)
    /\ pc' = "connect_yandex"
    /\ UNCHANGED <<mgrVars, unseen, debug, iter, loopVars, msgVars, genVars,
                   allHist,
                   tg_started, read, fetch_fails, deliveries, excVars, stopHist, otherVars>>

\* variant: start() returns as soon as one account failed to connect
ConnectYandex_AbortsOnAnyFailure ==
    /\ pc = "connect_yandex"
    /\ \E r \in ConnectResult : Connect(YANDEX, r)
    /\ pc' = IF \E a \in Accounts : connected'[a] = "no" THEN "returned"
             ELSE "tg_start"
    /\ UNCHANGED <<mgrVars, unseen, debug, iter, loopVars, msgVars, genVars,
                   allHist,
                   tg_started, read, fetch_fails, deliveries, excVars, stopHist, otherVars>>

\* lines 59-68: the second connect, then the hasattr test on both clients
ConnectYandex ==
    /\ pc = "connect_yandex"
    /\ \E r \in ConnectResult : Connect(YANDEX, r)
    /\ pc' = IF ~HasAttr(GOOGLE) /\ ~HasAttr(YANDEX) THEN "returned"
             ELSE "tg_start"
    /\ UNCHANGED <<mgrVars, unseen, debug, iter, loopVars, msgVars, genVars,
                   allHist,
                   tg_started, read, fetch_fails, deliveries, excVars, stopHist, otherVars>>

\* lines 71-72: tg_bot.start() returns True or False to the test, which only
\* logs a warning
TgStart ==
    /\ pc = "tg_start"
    /\ \E ok \in BOOLEAN : tg_started' = IF ok THEN "yes" ELSE "no"
    /\ pc' = "set_running"
    /\ UNCHANGED <<mgrVars, boxVars, debug, iter, loopVars, msgVars, genVars,
                   allHist, connected, read, fetch_fails, deliveries, excVars, stopHist, otherVars>>

\* line 74, reached whatever the test saw; the tested value is gone
SetRunning ==
    /\ pc = "set_running"
    /\ is_running' = TRUE
    /\ tg_started' = "untried"
    /\ pc' = "loop"
    /\ UNCHANGED <<current_provider, boxVars, debug, iter, loopVars, msgVars,
                   genVars, allHist, connected, read, fetch_fails, deliveries, excVars, stopHist,
                   otherVars>>

\* lines 77-92: the loop test and the choice of the provider to poll
LoopHead ==
    /\ pc = "loop"
    /\ iter < MaxIter
    /\ IF ~is_running
       THEN /\ pc' = "finally"
            /\ UNCHANGED current_provider
       ELSE IF HasAttr(current_provider)
       THEN /\ pc' = "select"
            /\ UNCHANGED current_provider
       ELSE /\ current_provider' = OtherProvider(current_provider)
            /\ pc' = "sleep"
    /\ UNCHANGED <<is_running, boxVars, debug, iter, loopVars, msgVars,
                   genVars, allHist,
                   runHist>>

(* ------------------------------------------ EmailManager._process_emails *)
\* variant: a session that is not usable is connected anew before the select
SelectMailbox_Reconnects ==
    /\ pc = "select"
    /\ imap' = [imap EXCEPT ![current_provider] = "auth"]
    /\ \E ok \in BOOLEAN : pc' = IF ok THEN "list" ELSE "switch"
    /\ UNCHANGED <<mgrVars, unseen, debug, iter, loopVars, msgVars, genVars,
                   allHist,
                   runHist>>

\* lines 145-147, select_mailbox: False without a usable session, and the
\* server may refuse
SelectMailbox ==
    /\ pc = "select"
    /\ \E ok \in BOOLEAN :
         pc' = IF Usable(current_provider) /\ ok THEN "list" ELSE "switch"
    /\ UNCHANGED <<mgrVars, boxVars, debug, iter, loopVars, msgVars, genVars,
                   allHist,
                   runHist>>

\* variant: the search asks for ALL, not for UNSEEN
ListUnseen_All ==
    /\ pc = "list"
    /\ \E ok \in BOOLEAN :
         /\ email_ids' = IF Usable(current_provider) /\ ok
                         THEN SortedSeq(Ids)
                         ELSE <<>>
         /\ idx' = IF email_ids' = <<>> THEN 0 ELSE 1
         /\ pc' = IF email_ids' = <<>> THEN "switch" ELSE "fetch"
    /\ trace' = <<"list">>
    /\ UNCHANGED <<mgrVars, boxVars, debug, iter, email_data, msgVars, genVars,
                   sent_record, iter_fetches, abandoned, upstream_said,
                   runHist>>

\* lines 150-154, get_unseen_emails_ids: the unseen IDs in the server's
\* order, or [] on any failure; an empty listing returns
ListUnseen ==
    /\ pc = "list"
    /\ \E ok \in BOOLEAN :
         /\ email_ids' = IF Usable(current_provider) /\ ok
                         THEN SortedSeq(unseen[current_provider])
                         ELSE <<>>
         /\ idx' = IF email_ids' = <<>> THEN 0 ELSE 1
         /\ pc' = IF email_ids' = <<>> THEN "switch" ELSE "fetch"
    /\ trace' = <<"list">>
    /\ UNCHANGED <<mgrVars, boxVars, debug, iter, email_data, msgVars, genVars,
                   sent_record, iter_fetches, abandoned, upstream_said,
                   runHist>>

\* the for statement of line 157 after the body ran for email_ids[idx]
AfterBody == IF idx + 1 > Len(email_ids) THEN "switch" ELSE "fetch"

\* variant: a failed fetch ends the loop
FetchEmail_Break ==
    /\ pc = "fetch"
    /\ iter_fetches' = iter_fetches + 1
    /\ \/ /\ Usable(current_provider)
          /\ \E f \in Senders, h \in HeaderTypes :
               email_data' = [id |-> email_ids[idx], from |-> f, headers |-> h]
          /\ trace' = <<"fetch">>
          /\ pc' = "process"
          /\ UNCHANGED idx
       \/ /\ email_data' = NoEmail
          /\ trace' = <<"fetch_none">>
          /\ idx' = idx + 1
          /\ pc' = "switch"
    /\ MsgFresh
    /\ sent_record' = EmptyDict
    /\ UNCHANGED <<mgrVars, boxVars, debug, iter, email_ids, genVars, abandoned,
                   upstream_said,
                   runHist>>

\* variant: the IDs are taken from the end of the listing
FetchEmail_Reversed ==
    /\ pc = "fetch"
    /\ iter_fetches' = iter_fetches + 1
    /\ \/ /\ Usable(current_provider)
          /\ \E f \in Senders, h \in HeaderTypes :
               email_data' = [id |-> email_ids[Len(email_ids) - idx + 1],
                              from |-> f, headers |-> h]
          /\ trace' = <<"fetch">>
          /\ pc' = "process"
          /\ UNCHANGED idx
       \/ /\ email_data' = NoEmail
          /\ trace' = <<"fetch_none">>
          /\ idx' = idx + 1
          /\ pc' = AfterBody
    /\ MsgFresh
    /\ sent_record' = EmptyDict
    /\ UNCHANGED <<mgrVars, boxVars, debug, iter, email_ids, genVars, abandoned,
                   upstream_said,
                   runHist>>

\* lines 159-163, get_email_by_id: None on any failure, and then `continue`
FetchEmailStep ==
    /\ pc = "fetch"
    /\ iter_fetches' = iter_fetches + 1
    /\ \/ /\ Usable(current_provider)
          /\ \E f \in Senders, h \in HeaderTypes :
               email_data' = [id |-> email_ids[idx], from |-> f, headers |-> h]
          /\ trace' = <<"fetch">>
          /\ pc' = "process"
          /\ UNCHANGED idx
       \/ /\ email_data' = NoEmail
          /\ trace' = <<"fetch_none">>
          /\ idx' = idx + 1
          /\ pc' = AfterBody
    /\ MsgFresh
    /\ sent_record' = EmptyDict
    /\ UNCHANGED <<mgrVars, boxVars, debug, iter, email_ids, genVars, abandoned,
                   upstream_said,
                   startHist, read, deliveries, excVars, stopHist, otherVars>>

\* the step in the pipeline
FetchEmail ==
    /\ FetchEmailStep
    /\ UNCHANGED fetch_fails

\* the same step in a run that counts, per ID, the calls that returned None
FetchEmailCounted ==
    /\ FetchEmailStep
    /\ fetch_fails' = IF trace' = <<"fetch_none">>
                      THEN [fetch_fails EXCEPT
                              ![current_provider][email_ids[idx]] = @ + 1]
                      ELSE fetch_fails

(* ------------------------------------ EmailManager._process_single_email *)
\* variant: equality where the code tests containment
AllowListed_Exact(from) == from = PIONER

\* line 187
AllowListed(from) == Contains(PIONER, from)

\* lines 182 and 187: clean_text applies re.sub to the subject and line 187
\* applies `in` to the From value; either raises TypeError on a Header object
NormaliseRaises(e) == e.headers = "Header"

\* lines 180-194: clean, then the allow-list rule or the call of classify_email
ProcessSingleEmail ==
    /\ pc = "process"
    /\ IF NormaliseRaises(email_data)
       THEN /\ Unwind(TypeError)
            /\ abandoned' = TRUE
       ELSE /\ IF AllowListed(email_data.from)
               THEN /\ classification' = MESSAGE
                    /\ pc' = "route"
                    /\ UNCHANGED <<genVars, trace>>
               ELSE /\ classification' = "none"
                    /\ GenFresh(FALSE)
                    /\ trace' = Append(trace, "classify")
                    /\ pc' = "generate"
            /\ UNCHANGED <<loopVars, payment_data, sent_record, iter_fetches,
                           abandoned, exc, raised>>
    /\ UNCHANGED <<mgrVars, boxVars, debug, iter, upstream_said, startHist,
                   read, fetch_fails, deliveries, error_sent, stopHist, otherVars>>

\* what the caller of _generate_content does with the value it returns:
\* classify_email lines 54-62, extract_payment_data lines 199-207
GenerateReturns(response) ==
    IF is_payment
    THEN /\ payment_data' = ExtractPaymentData(response)
         /\ pc' = "send_payment"
         /\ UNCHANGED classification
    ELSE /\ classification' = ClassifyEmail(response)
         /\ pc' = "route"
         /\ UNCHANGED payment_data

\* _generate_content lines 130-148: one upstream call that did o, and what
\* follows it
GenerateStep(o) ==
    /\ pc = "generate"
    /\ upstream_calls' = upstream_calls + 1
    /\ LET r == GenerateOnce(o, is_payment, debug)
       IN  IF r.tag = "except"
           THEN /\ pc' = "backoff"
                /\ UNCHANGED msgVars
           ELSE GenerateReturns(r.val)
    /\ UNCHANGED <<mgrVars, boxVars, debug, iter, loopVars, is_payment, attempt,
                   backoffs, histVars,
                   runHist>>

\* variant: one pass too many
LoopExhausted_OffByOne(n) == n > MAX_ATTEMPTS

\* line 129: range(5) is used up after n passes
LoopExhausted(n) == n >= MAX_ATTEMPTS

\* _generate_content lines 150-153: the handler sleeps, the loop goes on, and
\* after the last pass the function returns None
BackoffStep ==
    /\ pc = "backoff"
    /\ backoffs' = backoffs + 1
    /\ attempt' = attempt + 1
    /\ IF LoopExhausted(attempt + 1)
       THEN GenerateReturns(NoneText)
       ELSE /\ pc' = "generate"
            /\ UNCHANGED msgVars
    /\ UNCHANGED <<mgrVars, boxVars, debug, iter, loopVars, is_payment,
                   upstream_calls, histVars,
                   runHist>>

\* the two steps inside the pipeline
GenerateContent ==
    /\ \E o \in UpstreamOutcomes : GenerateStep(o)
    /\ UNCHANGED upstream_said

Backoff ==
    /\ BackoffStep
    /\ UNCHANGED upstream_said

(* ------------------------------------- what was called for the message *)
\* the calls a step has added to the record of the message in hand
NewCalls(S) ==
    Cardinality({ i \in (Len(trace) + 1)..Len(trace') : trace'[i] \in S })

\* per ID: send_message and send_payment_data calls (lines 199, 204),
\* mark_as_read calls (line 169) and those of them that returned False
Tally ==
    deliveries' =
      [deliveries EXCEPT ![current_provider][email_data.id] =
         [notify     |-> @.notify + NewCalls({"alert:ok", "alert:false",
                                               "pay:ok", "pay:false"}),
          mark       |-> @.mark + NewCalls({"mark:ok", "mark:no", "mark:false"}),
          mark_false |-> @.mark_false + NewCalls({"mark:false"})]]

\* variant: OTHER left out of the first branch
RouteAction_ForgetsOther(c) ==
    IF c \in {MESSAGE, SUPPORT, ALERT} THEN "alert"
    ELSE IF c = PAYMENT THEN "payment"
    ELSE "none"

\* variant: the last branch notifies
RouteAction_ImportantAlerts(c) ==
    IF c \in {MESSAGE, OTHER_, SUPPORT, ALERT} THEN "alert"
    ELSE IF c = PAYMENT THEN "payment"
    ELSE IF c = NOTICE THEN "none"
    ELSE "alert"

\* the routing table of lines 198-208
RouteAction(c) ==
    IF c \in {MESSAGE, OTHER_, SUPPORT, ALERT} THEN "alert"
    ELSE IF c = PAYMENT THEN "payment"
    ELSE IF c = NOTICE THEN "none"
    ELSE "none"

\* variant: a send_message that returned False ends the work on the message,
\* mark_as_read is skipped
Route_FailedAlertSkipsMark ==
    /\ pc = "route"
    /\ IF RouteAction(classification) = "alert"
       THEN \E ok \in BOOLEAN :
              /\ trace' = Append(trace, IF ok THEN "alert:ok" ELSE "alert:false")
              /\ idx' = IF ok THEN idx ELSE idx + 1
              /\ pc' = IF ok THEN "mark" ELSE AfterBody
       ELSE IF RouteAction(classification) = "payment"
       THEN /\ trace' = Append(trace, "extract")
            /\ pc' = "generate"
            /\ UNCHANGED idx
       ELSE /\ pc' = "mark"
            /\ UNCHANGED <<trace, idx>>
    /\ GenFresh(RouteAction(classification) = "payment")
    /\ UNCHANGED <<mgrVars, boxVars, debug, iter, email_ids, email_data,
                   msgVars, sent_record, iter_fetches, abandoned,
                   upstream_said, runHist>>

\* lines 198-208: tg_bot.send_message once, or extract_payment_data, or nothing
RouteStep ==
    /\ pc = "route"
    /\ IF RouteAction(classification) = "alert"
       THEN /\ \E ok \in BOOLEAN :
                 trace' = Append(trace, IF ok THEN "alert:ok" ELSE "alert:false")
            /\ pc' = "mark"
       ELSE IF RouteAction(classification) = "payment"
       THEN /\ trace' = Append(trace, "extract")
            /\ pc' = "generate"
       ELSE /\ pc' = "mark"
            /\ UNCHANGED trace
    /\ GenFresh(RouteAction(classification) = "payment")
    /\ UNCHANGED <<mgrVars, boxVars, debug, iter, loopVars, msgVars,
                   sent_record, iter_fetches, abandoned, upstream_said,
                   startHist, read, fetch_fails, excVars, stopHist, otherVars>>

\* the step in the pipeline
Route ==
    /\ RouteStep
    /\ UNCHANGED deliveries

\* the same step in a run that counts, per ID, the calls made for it
RouteCounted ==
    /\ RouteStep
    /\ Tally

\* variant: a fresh record is sent
PaymentArgument_Empty == EmptyDict

\* line 204: the record given to tg_client.send_payment_data
PaymentArgument == payment_data

\* lines 203-204: send_payment_data returns True or False
SendPaymentStep ==
    /\ pc = "send_payment"
    /\ sent_record' = PaymentArgument
    /\ \E ok \in BOOLEAN :
         trace' = Append(trace, IF ok THEN "pay:ok" ELSE "pay:false")
    /\ pc' = "mark"
    /\ GenFresh(FALSE)
    /\ UNCHANGED <<mgrVars, boxVars, debug, iter, loopVars, msgVars,
                   iter_fetches, abandoned, upstream_said,
                   startHist, read, fetch_fails, excVars, stopHist, otherVars>>

\* the step in the pipeline
SendPayment ==
    /\ SendPaymentStep
    /\ UNCHANGED deliveries

\* the same step in a run that counts
SendPaymentCounted ==
    /\ SendPaymentStep
    /\ Tally

\* variant: the message is marked only when no send returned False
MarkAsRead_OnlyIfSent ==
    /\ pc = "mark"
    /\ IF \E i \in DOMAIN trace : trace[i] \in {"alert:false", "pay:false"}
       THEN UNCHANGED <<unseen, read, trace>>
       ELSE \/ /\ Usable(current_provider)
               /\ unseen' = [unseen EXCEPT ![current_provider] = @ \ {email_data.id}]
               /\ read' = [read EXCEPT ![current_provider] = @ \cup {email_data.id}]
               /\ trace' = Append(trace, "mark:ok")
            \/ /\ Usable(current_provider)
               /\ trace' = Append(trace, "mark:no")
               /\ UNCHANGED <<unseen, read>>
            \/ /\ trace' = Append(trace, "mark:false")
               /\ UNCHANGED <<unseen, read>>
    /\ idx' = idx + 1
    /\ pc' = AfterBody
    /\ payment_data' = EmptyDict
    /\ sent_record' = EmptyDict
    /\ UNCHANGED <<mgrVars, imap, debug, iter, email_ids, email_data,
                   classification, genVars, iter_fetches, abandoned,
                   upstream_said,
                   startHist, fetch_fails, deliveries, excVars, stopHist, otherVars>>

\* line 169, mark_as_read (imap_client.py:247-267): the store sets the flag
\* (True), or the server answers it NO, which imaplib hands back without
\* raising and line 263 does not look at (True, "mark:no"), or there is no
\* session or the store raises (False);
\* the record of the returned _process_single_email is gone by now
MarkAsReadStep ==
    /\ pc = "mark"
    /\ \/ /\ Usable(current_provider)
          /\ unseen' = [unseen EXCEPT ![current_provider] = @ \ {email_data.id}]
          /\ read' = [read EXCEPT ![current_provider] = @ \cup {email_data.id}]
          /\ trace' = Append(trace, "mark:ok")
       \/ /\ Usable(current_provider)
          /\ trace' = Append(trace, "mark:no")
          /\ UNCHANGED <<unseen, read>>
       \/ /\ trace' = Append(trace, "mark:false")
          /\ UNCHANGED <<unseen, read>>
    /\ idx' = idx + 1
    /\ pc' = AfterBody
    /\ payment_data' = EmptyDict
    /\ sent_record' = EmptyDict
    /\ UNCHANGED <<mgrVars, imap, debug, iter, email_ids, email_data,
                   classification, genVars, iter_fetches, abandoned,
                   upstream_said,
                   startHist, fetch_fails, excVars, stopHist, otherVars>>

\* the step in the pipeline
MarkAsRead ==
    /\ MarkAsReadStep
    /\ UNCHANGED deliveries

\* the same step in a run that counts
MarkAsReadCounted ==
    /\ MarkAsReadStep
    /\ Tally

(* ------------------------------------------- back in EmailManager.start *)
\* variant: the iteration ends without the sleep
SwitchProvider_SkipsSleep ==
    /\ pc = "switch"
    /\ current_provider' = OtherProvider(current_provider)
    /\ pc' = "loop"
    /\ FramesGone
    /\ UNCHANGED <<is_running, boxVars, debug, iter, abandoned, upstream_said,
                   runHist>>

\* variant: the provider is switched only after a poll that fetched mail
SwitchProvider_OnlyAfterMail ==
    /\ pc = "switch"
    /\ current_provider' = IF iter_fetches > 0
                           THEN OtherProvider(current_provider)
                           ELSE current_provider
    /\ pc' = "sleep"
    /\ FramesGone
    /\ UNCHANGED <<is_running, boxVars, debug, iter, abandoned, upstream_said,
                   runHist>>

\* lines 82 and 86: _process_emails has returned, the provider is switched
SwitchProvider ==
    /\ pc = "switch"
    /\ current_provider' = OtherProvider(current_provider)
    /\ pc' = "sleep"
    /\ FramesGone
    /\ UNCHANGED <<is_running, boxVars, debug, iter, abandoned, upstream_said,
                   runHist>>

\* lines 95-96: time.sleep(30)
Sleep ==
    /\ pc = "sleep"
    /\ iter' = iter + 1
    /\ pc' = "loop"
    /\ UNCHANGED <<mgrVars, boxVars, debug, loopVars, msgVars, genVars,
                   allHist,
                   runHist>>

\* the statements of the try block of lines 76-96
TryPcs == {"loop", "select", "list", "fetch", "process", "generate", "backoff",
           "route", "send_payment", "mark", "switch", "sleep"}

\* the statements between a successful fetch and the mark_as_read call
MidMessagePcs == {"process", "generate", "backoff", "route", "send_payment",
                  "mark"}

\* lines 97-98: KeyboardInterrupt anywhere in the try block; no handler
\* below start() catches it (they catch Exception), so the frames unwind
KeyboardInterrupt ==
    /\ pc \in TryPcs
    /\ Unwind(KeyboardInterruptExc)
    /\ abandoned' = (abandoned \/ pc \in MidMessagePcs)
    /\ UNCHANGED <<mgrVars, boxVars, debug, iter, upstream_said, startHist,
                   read, fetch_fails, deliveries, error_sent, stopHist, otherVars>>

\* the mail server or the network ends an authenticated session
ConnectionLost ==
    /\ pc \in TryPcs
    /\ \E a \in Accounts :
         /\ imap[a] = "auth"
         /\ imap' = [imap EXCEPT ![a] = "dead"]
    /\ UNCHANGED <<pc, mgrVars, unseen, debug, iter, loopVars, msgVars, genVars,
                   allHist,
                   runHist>>

(* ---------------------------------------------------- EmailManager.stop *)
\* where the main thread goes when its stop() call is over: back into
\* start(), which returns, or into main(), which ends
StopLeaves == IF stops = 0 THEN "returned" ELSE "exited"

\* line 122
StopFlag ==
    /\ pc = "finally"
    /\ is_running' = FALSE
    /\ pc' = "stop_google"
    /\ UNCHANGED <<current_provider, boxVars, debug, iter, loopVars, msgVars,
                   genVars, allHist,
                   runHist>>

\* lines 125-126
StopGoogle ==
    /\ pc = "stop_google"
    /\ \E r \in DisconnectResult :
         /\ Disconnect(GOOGLE, r)
         /\ LET e == DisconnectOutcome(imap[GOOGLE], r).exc
            IN  IF e = NoExc
                THEN /\ pc' = "stop_yandex"
                     /\ UNCHANGED <<raised, stops>>
                ELSE /\ pc' = StopLeaves
                     /\ raised' = e
                     /\ stops' = stops + 1
    /\ UNCHANGED <<mgrVars, unseen, debug, iter, loopVars, msgVars, genVars,
                   allHist, startHist, read, fetch_fails, deliveries, exc, error_sent, otherVars>>

\* lines 129-132
StopYandex ==
    /\ pc = "stop_yandex"
    /\ \E r \in DisconnectResult :
         /\ Disconnect(YANDEX, r)
         /\ LET e == DisconnectOutcome(imap[YANDEX], r).exc
            IN  raised' = IF e = NoExc THEN raised ELSE e
    /\ pc' = StopLeaves
    /\ stops' = stops + 1
    /\ UNCHANGED <<mgrVars, unseen, debug, iter, loopVars, msgVars, genVars,
                   allHist, startHist, read, fetch_fails, deliveries, exc, error_sent, otherVars>>

(* ------------------------------------------------------------ main.main *)
\* main.py lines 25-38: start() is over. An Exception it raised is reported
\* with send_error_message, KeyboardInterrupt is only logged, and the finally
\* clause calls manager.stop() once more
MainAfterStart ==
    /\ pc = "returned"
    /\ error_sent' = (error_sent \/ IsException(raised))
    /\ raised' = NoExc
    /\ pc' = "finally"
    /\ UNCHANGED <<mgrVars, boxVars, debug, iter, loopVars, msgVars, genVars,
                   allHist, startHist, read, fetch_fails, deliveries, exc, stopHist, otherVars>>

Next ==
    \/ ConnectGoogle
    \/ ConnectYandex
    \/ TgStart
    \/ SetRunning
    \/ LoopHead
    \/ SelectMailbox
    \/ ListUnseen
    \/ FetchEmail
    \/ ProcessSingleEmail
    \/ GenerateContent
    \/ Backoff
    \/ Route
    \/ SendPayment
    \/ MarkAsRead
    \/ SwitchProvider
    \/ Sleep
    \/ KeyboardInterrupt
    \/ ConnectionLost
    \/ StopFlag
    \/ StopGoogle
    \/ StopYandex
    \/ MainAfterStart

Spec == Init /\ [][Next]_vars

(* ------------------------------------ stop() called from another thread *)
\* EmailManager.stop() run by a thread other than the one inside start(), at
\* any moment: before start(), during it, or after it. Both threads use the
\* same ImapClient objects with no lock; what a command does on a session the
\* other thread is using is one of the results the commands draw from.
OtherStopFlag ==
    /\ spc = "off"
    /\ is_running' = FALSE
    /\ spc' = "stop_google"
    /\ UNCHANGED <<pc, current_provider, boxVars, debug, iter, loopVars,
                   msgVars, genVars, allHist, startHist, read, fetch_fails, deliveries, excVars,
                   stopHist, sraised>>

OtherStopGoogle ==
    /\ spc = "stop_google"
    /\ \E r \in DisconnectResult :
         /\ Disconnect(GOOGLE, r)
         /\ LET e == DisconnectOutcome(imap[GOOGLE], r).exc
            IN  IF e = NoExc
                THEN /\ spc' = "stop_yandex"
                     /\ UNCHANGED sraised
                ELSE /\ spc' = "done"
                     /\ sraised' = e
    /\ UNCHANGED <<pc, mgrVars, unseen, debug, iter, loopVars, msgVars,
                   genVars, allHist, startHist, read, fetch_fails, deliveries, excVars, stops>>

OtherStopYandex ==
    /\ spc = "stop_yandex"
    /\ \E r \in DisconnectResult :
         /\ Disconnect(YANDEX, r)
         /\ sraised' = DisconnectOutcome(imap[YANDEX], r).exc
    /\ spc' = "done"
    /\ UNCHANGED <<pc, mgrVars, unseen, debug, iter, loopVars, msgVars,
                   genVars, allHist, startHist, read, fetch_fails, deliveries, excVars, stops>>

\* the run with mail in the account polled first and the plain-text classifier
InitStopper ==
    /\ Init
    /\ debug = FALSE
    /\ unseen = [a \in Accounts |-> IF a = YANDEX THEN Ids ELSE {}]

\* the program left to itself (no interrupt, no lost session) and one outside
\* call of stop() at any moment of it
NextStopper ==
    \/ ConnectGoogle
    \/ ConnectYandex
    \/ TgStart
    \/ SetRunning
    \/ LoopHead
    \/ SelectMailbox
    \/ ListUnseen
    \/ FetchEmail
    \/ ProcessSingleEmail
    \/ GenerateContent
    \/ Backoff
    \/ Route
    \/ SendPayment
    \/ MarkAsRead
    \/ SwitchProvider
    \/ Sleep
    \/ StopFlag
    \/ StopGoogle
    \/ StopYandex
    \/ MainAfterStart
    \/ OtherStopFlag
    \/ OtherStopGoogle
    \/ OtherStopYandex

SpecStopper == InitStopper /\ [][NextStopper]_vars

(* ------------------------------ stop() called once start() is under way *)
\* the outside call of stop() made after the first statement of start()
OtherStopAfterEntry ==
    /\ pc # "idle"
    /\ OtherStopFlag

NextStopAfterEntry ==
    \/ ConnectGoogle
    \/ ConnectYandex
    \/ TgStart
    \/ SetRunning
    \/ LoopHead
    \/ SelectMailbox
    \/ ListUnseen
    \/ FetchEmail
    \/ ProcessSingleEmail
    \/ GenerateContent
    \/ Backoff
    \/ Route
    \/ SendPayment
    \/ MarkAsRead
    \/ SwitchProvider
    \/ Sleep
    \/ StopFlag
    \/ StopGoogle
    \/ StopYandex
    \/ MainAfterStart
    \/ OtherStopAfterEntry
    \/ OtherStopGoogle
    \/ OtherStopYandex

SpecStopAfterEntry == InitStopper /\ [][NextStopAfterEntry]_vars

(* ------------------------------------- runs on servers that do their part *)
\* what a step is like when the mail servers answer: select_mailbox succeeds
\* on a connected account, the listing is the unseen IDs, get_email_by_id
\* returns the message and the store of mark_as_read is answered OK
ServersAnswer ==
    /\ pc = "select" /\ connected[current_provider] = "yes" => pc' = "list"
    /\ pc = "list" => email_ids' = SortedSeq(unseen[current_provider])
    /\ pc = "fetch" => trace' = <<"fetch">>
    /\ pc = "mark" => \A i \in DOMAIN trace' : trace'[i] \notin {"mark:no", "mark:false"}

\* the program with no interrupt and no lost session, its thread never
\* halted for good; the classifier, the extractor and the notifiers do
\* whatever they can do
NextLive ==
    /\ \/ ConnectGoogle
       \/ ConnectYandex
       \/ TgStart
       \/ SetRunning
       \/ LoopHead
       \/ SelectMailbox
       \/ ListUnseen
       \/ FetchEmail
       \/ ProcessSingleEmail
       \/ GenerateContent
       \/ Backoff
       \/ Route
       \/ SendPayment
       \/ MarkAsRead
       \/ SwitchProvider
       \/ Sleep
       \/ StopFlag
       \/ StopGoogle
       \/ StopYandex
       \/ MainAfterStart
    /\ ServersAnswer

SpecLive == Init /\ [][NextLive]_vars /\ WF_vars(NextLive)

(* --------------------------------------------- runs that count the fetches *)
\* mail in the account polled first
InitFetches ==
    /\ Init
    /\ unseen = [a \in Accounts |-> IF a = YANDEX THEN Ids ELSE {}]

\* the program left to itself (no interrupt, no lost session), each
\* get_email_by_id call that returned None counted
NextFetches ==
    \/ ConnectGoogle
    \/ ConnectYandex
    \/ TgStart
    \/ SetRunning
    \/ LoopHead
    \/ SelectMailbox
    \/ ListUnseen
    \/ FetchEmailCounted
    \/ ProcessSingleEmail
    \/ GenerateContent
    \/ Backoff
    \/ Route
    \/ SendPayment
    \/ MarkAsRead
    \/ SwitchProvider
    \/ Sleep
    \/ StopFlag
    \/ StopGoogle
    \/ StopYandex
    \/ MainAfterStart

SpecFetches == InitFetches /\ [][NextFetches]_vars

(* ---------------------------- runs that count the sends and the marks *)
\* the pipeline and its interrupts, each send_message, send_payment_data
\* and mark_as_read call counted against the ID it was made for (a
\* mark_as_read call may return False whatever the session's state)
NextDeliveries ==
    \/ ConnectGoogle
    \/ ConnectYandex
    \/ TgStart
    \/ SetRunning
    \/ LoopHead
    \/ SelectMailbox
    \/ ListUnseen
    \/ FetchEmail
    \/ ProcessSingleEmail
    \/ GenerateContent
    \/ Backoff
    \/ RouteCounted
    \/ SendPaymentCounted
    \/ MarkAsReadCounted
    \/ SwitchProvider
    \/ Sleep
    \/ KeyboardInterrupt
    \/ StopFlag
    \/ StopGoogle
    \/ StopYandex
    \/ MainAfterStart

SpecDeliveries == InitFetches /\ [][NextDeliveries]_vars

(* ------------------------------------------------ the client on its own *)
\* One call of classify_email or of extract_payment_data, entered from the
\* pipeline with a fetched message in hand; every upstream behaviour at every
\* attempt, and the last one recorded in upstream_said.
InitClient ==
    /\ pc = "generate"
    /\ is_running = TRUE
    /\ current_provider = YANDEX
    /\ imap = [a \in Accounts |-> "auth"]
    /\ unseen = [a \in Accounts |-> Ids]
    /\ debug \in BOOLEAN
    /\ iter = 0
    /\ email_ids = SortedSeq(Ids)
    /\ idx = 1
    /\ email_data \in { [id |-> 1, from |-> f, headers |-> "str"] :
                           f \in { g \in Senders : ~AllowListed(g) } }
    /\ is_payment \in BOOLEAN
    /\ classification = IF is_payment THEN PAYMENT ELSE "none"
    /\ payment_data = EmptyDict
    /\ attempt = 0
    /\ trace = IF is_payment THEN <<"fetch", "classify", "extract">>
               ELSE <<"fetch", "classify">>
    /\ upstream_calls = 0
    /\ backoffs = 0
    /\ sent_record = EmptyDict
    /\ upstream_said = NoOutcome
    /\ iter_fetches = 1
    /\ abandoned = FALSE
    /\ connected = [a \in Accounts |-> "yes"]
    /\ tg_started = "untried"
    /\ read = [a \in Accounts |-> {}]
    /\ fetch_fails = [a \in Accounts |-> [i \in Ids |-> 0]]
    /\ deliveries = [a \in Accounts |-> [i \in Ids |-> NoDeliveries]]
    /\ exc = NoExc
    /\ raised = NoExc
    /\ stops = 0
    /\ logouts = [a \in Accounts |-> 0]
    /\ error_sent = FALSE
    /\ spc = "off"
    /\ sraised = NoExc

ClientCall ==
    \E o \in UpstreamOutcomes :
      /\ GenerateStep(o)
      /\ upstream_said' = o

ClientBackoff ==
    /\ BackoffStep
    /\ UNCHANGED upstream_said

NextClient ==
    \/ ClientCall
    \/ ClientBackoff

SpecClient == InitClient /\ [][NextClient]_vars

(* ------------------------------------------------------------ properties *)
Count(tr, S) == Cardinality({ i \in DOMAIN tr : tr[i] \in S })
Last(tr) == tr[Len(tr)]
Position(tr, e) == SetMin({ i \in DOMAIN tr : tr[i] = e })

AlertEvents == {"alert:ok", "alert:false"}
PayEvents == {"pay:ok", "pay:false"}
MarkEvents == {"mark:ok", "mark:no", "mark:false"}

\* the for loop of _process_emails stands between two messages
BetweenMessages == pc \in {"fetch", "switch"}

\* C1: classify_email ends by returning one of the seven categories, whatever
\* the upstream did at each attempt (raised every time, no text, malformed
\* structured text, a string outside the enumeration); until it returns no
\* category is set, and the exception marker is never its result.
C1_ClassifyReturnsCategory ==
    ~is_payment =>
        \/ pc \in {"generate", "backoff"} /\ classification = "none"
        \/ pc = "route" /\ classification \in EmailCategory

C1_Witness ==
    /\ ~is_payment
    /\ pc = "route"
    /\ upstream_said = Response(Text(<<"s", "p", "a", "m">>))
    /\ classification = OTHER_

\* C8: an invocation whose every upstream call failed made exactly 5 calls,
\* slept before each further call, and returned the default (category other,
\* empty record); no invocation makes a 6th call.
C8_RetryBound ==
    /\ upstream_calls <= 5
    /\ pc = "generate" => backoffs = upstream_calls /\ upstream_calls < 5
    /\ pc = "backoff" => backoffs + 1 = upstream_calls
    /\ pc \in {"route", "send_payment"} /\ backoffs = upstream_calls =>
         /\ upstream_calls = 5
         /\ pc = "route" => classification = OTHER_
         /\ pc = "send_payment" => payment_data = EmptyDict

C8_Witness ==
    /\ pc = "send_payment"
    /\ is_payment
    /\ upstream_said = Raises
    /\ upstream_calls = 5
    /\ backoffs = 5
    /\ payment_data = EmptyDict

\* the upstream texts that are not JSON, and those that are JSON but no object
NotJsonTexts ==
    PlainTexts
    \cup { <<"{category:">>,
           <<BT, BT, BT, BT, BT, BT>>,
           Fenced(<<"json">>, <<SP>>, <<"{category:spam}">>) }
NotObjectTexts == { <<"[1,2]">>, <<"12.5">>, <<"qalertq">> }

\* C10: extract_payment_data ends by returning a dict; it is the empty dict
\* when the upstream was exhausted, gave no text, gave text that is not JSON,
\* or gave JSON that is not an object.
C10_ExtractNeverRaises ==
    is_payment =>
        \/ pc \in {"generate", "backoff"}
        \/ /\ pc = "send_payment"
           /\ payment_data.kind = "object"
           /\ \/ backoffs = upstream_calls
              \/ Falsy(upstream_said.text)
              \/ upstream_said.text.text \in NotJsonTexts \cup NotObjectTexts
              => payment_data = EmptyDict

C10_Witness ==
    /\ is_payment
    /\ pc = "send_payment"
    /\ upstream_said = Response(Text(<<"[1,2]">>))
    /\ payment_data = EmptyDict

\* C2: a message classified payment gets one extract_payment_data call and
\* then one send_payment_data call, no alert, and the record sent is the
\* record extract_payment_data returned (empty or not).
C2_PaymentRoute ==
    classification = PAYMENT =>
        /\ Count(trace, AlertEvents) = 0
        /\ Count(trace, {"extract"}) = IF pc = "route" THEN 0 ELSE 1
        /\ pc \in {"route", "generate", "backoff", "send_payment"} =>
             Count(trace, PayEvents) = 0
        /\ pc \in {"mark", "fetch", "switch"} =>
             /\ Count(trace, PayEvents) = 1
             /\ \A i \in DOMAIN trace :
                  trace[i] \in PayEvents => Position(trace, "extract") < i
        /\ pc = "mark" => sent_record = payment_data

C2_Witness ==
    /\ pc = "mark"
    /\ classification = PAYMENT
    /\ sent_record = JObject(Absent, Absent, InvoicePay)
    /\ trace = <<"fetch", "classify", "extract", "pay:ok">>

\* C3: a message classified message, other, support or alert gets exactly one
\* send_message call, whatever it returned, and no extraction and no payment
\* notification.
C3_AlertRoute ==
    classification \in {MESSAGE, OTHER_, SUPPORT, ALERT} =>
        /\ pc \in {"route", "mark", "fetch", "switch"}
        /\ Count(trace, {"extract"}) = 0
        /\ Count(trace, PayEvents) = 0
        /\ Count(trace, AlertEvents) = IF pc = "route" THEN 0 ELSE 1

C3_Witness ==
    /\ pc = "fetch"
    /\ classification = OTHER_
    /\ trace = <<"fetch", "classify", "alert:false", "mark:ok">>

\* C4: a message classified notice or important gets no notification on
\* either channel and no extraction; mark_as_read is still called for it, and
\* the server drops its unseen flag when that call succeeds.
C4_SilentRoute ==
    classification \in {NOTICE, IMPORTANT} =>
        /\ pc \in {"route", "mark", "fetch", "switch"}
        /\ Count(trace, AlertEvents \cup PayEvents \cup {"extract"}) = 0
        /\ BetweenMessages =>
             /\ Count(trace, MarkEvents) = 1
             /\ Last(trace) \in MarkEvents
             /\ Last(trace) = "mark:ok" =>
                  email_data.id \notin unseen[current_provider]

C4_Witness ==
    /\ pc = "switch"
    /\ classification = IMPORTANT
    /\ trace = <<"fetch", "classify", "mark:ok">>

C6_FailedFetchSkipped ==
    trace # <<>> /\ trace[1] = "fetch_none" =>
        /\ trace = <<"fetch_none">>
        /\ classification = "none"
        /\ email_data = NoEmail
        /\ idx = iter_fetches + 1
        /\ pc = IF idx <= Len(email_ids) THEN "fetch" ELSE "switch"

C6_Witness ==
    /\ trace = <<"fetch_none">>
    /\ pc = "fetch"
    /\ idx = 2
    /\ Usable(current_provider)

\* C7: a listing that comes back empty leads straight out of _process_emails
\* with no fetch made and the mailbox untouched; from there the loop sleeps
\* and then starts the next iteration (unless it is interrupted).
C7_EmptyListing ==
    [][ /\ pc = "list" /\ pc' \notin {"list", "finally"} /\ email_ids' = <<>> =>
          pc' = "switch" /\ iter_fetches' = 0 /\ unseen' = unseen
        /\ pc = "switch" /\ pc' \notin {"switch", "finally"} => pc' = "sleep"
        /\ pc = "sleep" /\ pc' \notin {"sleep", "finally"} =>
             pc' = "loop" /\ iter' = iter + 1 ]_vars

C7_Witness ==
    /\ pc = "switch"
    /\ trace = <<"list">>
    /\ Usable(current_provider)
    /\ unseen[current_provider] = {}
    /\ iter_fetches = 0

\* C9: a message whose From holds the allow-listed substring is classified
\* message without classify_email being called, and gets the one alert
\* notification.
C9_AllowListShortCircuit ==
    email_data # NoEmail /\ Contains(PIONER, email_data.from) =>
        /\ pc \in {"process", "route", "mark", "fetch", "switch"}
        /\ Count(trace, {"classify", "extract"} \cup PayEvents) = 0
        /\ upstream_calls = 0
        /\ pc # "process" => classification = MESSAGE
        /\ pc \in {"mark", "fetch", "switch"} => Count(trace, AlertEvents) = 1

C9_Witness ==
    /\ pc = "mark"
    /\ Contains(PIONER, email_data.from)
    /\ classification = MESSAGE
    /\ trace = <<"fetch", "alert:ok">>

\* connect() returned False for every account / for exactly one of the two
AllAccountsDown == \A a \in Accounts : connected[a] = "no"
OneAccountDown ==
    \E a \in Accounts :
        connected[a] = "yes" /\ connected[OtherProvider(a)] = "no"

\* C11: when connect() has failed for every account, start() ends without
\* entering the poll loop: no iteration, no select, no listing and no sleep
\* takes place.
C11_AllFailedTerminates ==
    AllAccountsDown => pc \notin TryPcs /\ iter = 0

\* the run the claim excludes: both connects failed and an iteration was made
C11_Witness ==
    /\ AllAccountsDown
    /\ pc = "loop"
    /\ is_running
    /\ iter = 1

\* C12: when one account failed to connect and the other connected, or
\* tg_bot.start() returned False, start() goes on to the poll loop: it sets
\* is_running, every iteration polls the account the pointer names, and the
\* listing drained for a connected account is its unseen messages.
C12_DegradedStartupRuns ==
    [][ /\ pc = "connect_yandex" /\ connected'[GOOGLE] # connected'[YANDEX] =>
             pc' = "tg_start"
        /\ pc = "tg_start" => pc' = "set_running"
        /\ pc = "set_running" /\ (OneAccountDown \/ tg_started = "no") =>
             pc' = "loop" /\ is_running'
        /\ pc = "loop" /\ is_running /\ OneAccountDown
             /\ pc' \notin {"loop", "finally"} =>
             pc' = "select" /\ current_provider' = current_provider
        /\ pc = "list" /\ connected[current_provider] = "yes" /\ pc' = "fetch" =>
             email_ids' = SortedSeq(unseen[current_provider]) ]_vars

C12_Witness ==
    /\ connected = [a \in Accounts |-> IF a = YANDEX THEN "yes" ELSE "no"]
    /\ current_provider = YANDEX
    /\ iter = 0
    /\ pc = "switch"
    /\ trace = <<"fetch", "classify", "alert:ok", "mark:ok">>
    /\ unseen[YANDEX] = {}

C14_StopNeverRaises ==
    /\ raised = NoExc
    /\ sraised = NoExc

C14_Witness ==
    /\ spc = "done"
    /\ sraised = NoExc
    /\ pc = "mark"
    /\ is_running = FALSE
    /\ imap[YANDEX] = "closed"
    /\ logouts[YANDEX] = 1

\* C15: a stop request acts only between loop iterations: when the loop was
\* ended by an interrupt and a session has been logged out, no fetched message
\* was left short of its mark_as_read call.
C15_StopAtBoundary ==
    (exc = KeyboardInterruptExc /\ \E a \in Accounts : logouts[a] > 0) =>
        ~abandoned

\* the run the claim excludes: the interrupt arrived between the fetch and the
\* mark_as_read of a message, stop() logged the session out and the message
\* is still unseen
C15_Witness ==
    /\ exc = KeyboardInterruptExc
    /\ abandoned
    /\ pc = "returned"
    /\ logouts[YANDEX] = 1
    /\ imap[YANDEX] = "closed"
    /\ unseen[YANDEX] = Ids

\* the account the pointer names in iteration n of a run that starts at yandex
ProviderOfIteration(n) == IF n % 2 = 0 THEN YANDEX ELSE GOOGLE

\* C16: the account pointer advances once in every loop iteration, whatever
\* the poll of that iteration met (mail, no mail, a failed select or a failed
\* listing): iteration n polls yandex when n is even and google when n is odd,
\* and during the sleep that ends it the pointer already names the account of
\* iteration n + 1.
C16_PointerAdvancesEveryIteration ==
    /\ pc \in TryPcs \ {"sleep"} =>
         current_provider = ProviderOfIteration(iter)
    /\ pc = "sleep" => current_provider = ProviderOfIteration(iter + 1)

\* the third iteration is back at yandex, whose connect had failed, after an
\* iteration in which google had mail and marked it
C16_Witness ==
    /\ iter = 2
    /\ pc = "select"
    /\ current_provider = YANDEX
    /\ connected[YANDEX] = "no"
    /\ read[GOOGLE] # {}

\* C17: a failure in the processing of one message stays with that message:
\* the poll loop is never left through an exception that a fetched message
\* raised on its way to mark_as_read.
C17_MessageFailureContained ==
    ~(IsException(exc) /\ abandoned)

\* the run the claim excludes: the first message of a two-message listing
\* raised in normalisation during the first iteration, the second was never
\* fetched, both are still unseen and the run is over
C17_Witness ==
    /\ exc = TypeError
    /\ abandoned
    /\ pc = "exited"
    /\ iter = 0
    /\ ~is_running
    /\ unseen[YANDEX] = Ids
    /\ read[YANDEX] = {}

\* C18: when the poll loop was left through an unexpected exception, the
\* process ends with the running flag false, no session left open, and
\* send_error_message called for the operator.
C18_ErrorShutdownNotifies ==
    (pc = "exited" /\ IsException(exc)) =>
        /\ ~is_running
        /\ \A a \in Accounts : imap[a] \in {"none", "closed"}
        /\ error_sent

\* the run the claim excludes: the loop ended by TypeError, both stop() calls
\* are done, the sessions are gone, and send_error_message was never called
C18_Witness ==
    /\ pc = "exited"
    /\ exc = TypeError
    /\ stops = 2
    /\ ~is_running
    /\ \A a \in Accounts : connected[a] = "yes" /\ imap[a] = "none"
    /\ ~error_sent

\* the place of a recorded step in the pipeline of one message
Stage(e) ==
    CASE e = "list" -> 0
      [] e \in {"fetch", "fetch_none"} -> 1
      [] e = "classify" -> 2
      [] e \in AlertEvents \cup {"extract"} -> 3
      [] e \in PayEvents -> 4
      [] e \in MarkEvents -> 5

\* C19: within one poll the messages are taken one at a time in the order of
\* the listing: the message in work is the idx-th ID of the listing and the
\* idx-th fetch of the poll, its recorded steps follow the order fetch,
\* classify, routed action, mark_as_read, the mark_as_read call is the last
\* of them, and the next fetch starts only after that call (or after a fetch
\* that returned nothing).
C19_SequentialInListingOrder ==
    /\ pc \in MidMessagePcs =>
         /\ idx \in DOMAIN email_ids
         /\ email_data.id = email_ids[idx]
         /\ iter_fetches = idx
         /\ \A i \in DOMAIN trace : trace[i] \notin MarkEvents
    /\ pc = "fetch" =>
         /\ idx \in DOMAIN email_ids
         /\ iter_fetches = idx - 1
         /\ idx > 1 => Last(trace) \in MarkEvents \cup {"fetch_none"}
    /\ \A i, j \in DOMAIN trace : i < j => Stage(trace[i]) < Stage(trace[j])

\* the second message of a two-message listing is in work after the first one
\* was marked
C19_Witness ==
    /\ pc = "process"
    /\ email_ids = <<1, 2>>
    /\ idx = 2
    /\ email_data.id = 2
    /\ iter_fetches = 2
    /\ read[current_provider] = {1}

PollsBegun(a) == Cardinality({ n \in 0..iter : ProviderOfIteration(n) = a })

\* C21: an ID whose fetch fails is not tried again without end: once an
\* account has been polled twice or more, no ID of it has failed a fetch in
\* every one of those polls.
C21_FailedFetchNotRetriedForever ==
    \A a \in Accounts, i \in Ids :
        PollsBegun(a) >= 2 => fetch_fails[a][i] < PollsBegun(a)

\* the run the claim excludes: yandex has been polled twice, the fetch of
\* message 1 returned None in both polls, the message is still unseen and the
\* loop is running
C21_Witness ==
    /\ iter = 2
    /\ pc \in TryPcs
    /\ is_running
    /\ PollsBegun(YANDEX) = 2
    /\ fetch_fails[YANDEX][1] = 2
    /\ 1 \in unseen[YANDEX]

\* C22: the account an iteration selects for polling is one whose connect()
\* succeeded: select_mailbox is never called for an account whose connect()
\* returned False.
C22_SelectsAvailableAccount ==
    pc = "select" => connected[current_provider] = "yes"

\* the run the claim excludes: yandex failed to connect, google connected and
\* holds mail, and the first iteration was spent on yandex with nothing listed
C22_Witness ==
    /\ connected = [a \in Accounts |-> IF a = GOOGLE THEN "yes" ELSE "no"]
    /\ iter = 0
    /\ pc = "switch"
    /\ current_provider = YANDEX
    /\ trace = <<>>
    /\ unseen[GOOGLE] = Ids

\* C23: on servers that do their part, every unseen message of a connected
\* account is in the end marked read, or the run has ended on an exception,
\* whatever the classifier, the payment extractor and the notifiers did for
\* it.
C23_EveryUnseenEventuallyRead ==
    \A a \in Accounts, i \in Ids :
        (connected[a] = "yes" /\ i \in unseen[a]) ~>
            (i \in read[a] \/ exc # NoExc)

\* both yandex messages are marked, the last of them after a classification
\* that fell back to other and an alert that returned False
C23_Witness ==
    /\ exc = NoExc
    /\ pc = "switch"
    /\ iter = 0
    /\ read[YANDEX] = Ids
    /\ unseen[YANDEX] = {}
    /\ classification = OTHER_
    /\ trace = <<"fetch", "classify", "alert:false", "mark:ok">>

\* C24: a message whose classification call failed in all five passes is
\* classified other, gets one send_message call and then its mark_as_read
\* call, which takes it out of the unseen ones when the store succeeds.
C24_ExhaustedClassificationDegrades ==
    [][ /\ pc' = "route" /\ backoffs' = MAX_ATTEMPTS =>
             classification' = OTHER_
        /\ pc = "route" /\ backoffs = MAX_ATTEMPTS
             /\ pc' \notin {"route", "finally"} =>
             /\ pc' = "mark"
             /\ classification' = OTHER_
             /\ Count(trace', AlertEvents) = 1
        /\ pc = "mark" /\ classification = OTHER_
             /\ pc' \notin {"mark", "finally"} =>
             /\ Last(trace') \in MarkEvents
             /\ Count(trace', AlertEvents) = 1
             /\ Count(trace', MarkEvents) = 1
             /\ Last(trace') = "mark:ok" =>
                  email_data.id \notin unseen'[current_provider] ]_vars

\* five upstream calls raised, five sleeps were made, and the message stands
\* before the routing as other
C24_Witness ==
    /\ pc = "route"
    /\ ~is_payment
    /\ upstream_calls = MAX_ATTEMPTS
    /\ backoffs = MAX_ATTEMPTS
    /\ classification = OTHER_
    /\ trace = <<"fetch", "classify">>

\* two characters that differ at most in letter case
EqIgnoreCase(x, y) ==
    x = y \/ <<x, y>> \in UpperLower \/ <<y, x>> \in UpperLower

\* s is the value string of category c with whitespace around it and its
\* letters in either case
MatchesName(s, c) ==
    LET name == CategoryValue(c)
    IN  \E l \in 0..Len(s) :
          LET r == Len(s) - l - Len(name)
          IN  /\ r >= 0
              /\ \A i \in 1..l : IsSpace(s[i])
              /\ \A i \in (Len(s) - r + 1)..Len(s) : IsSpace(s[i])
              /\ \A i \in 1..Len(name) : EqIgnoreCase(s[l + i], name[i])

\* the category string of the response the classifier got: the text itself,
\* or in debug mode the value of the "category" key of the parsed text
CategoryString ==
    IF ~debug THEN upstream_said.text.text
    ELSE LET v == CleanDirtyJson(upstream_said.text.text)
         IN  IF v.category.t = "str" THEN v.category.s ELSE <<>>

\* C25: when classify_email has returned on a response, the category is the
\* one whose name the category string is, whitespace around it and letter
\* case set aside, and other when the string is no category name (the empty
\* string included).
C25_CategoryNormalised ==
    (pc = "route" /\ ~is_payment /\ upstream_said.kind = "response") =>
        /\ \A c \in EmailCategory :
             MatchesName(CategoryString, c) => classification = c
        /\ (\A c \in EmailCategory : ~MatchesName(CategoryString, c)) =>
             classification = OTHER_

\* the plain response " Notice" with a line break after it was classified
\* notice
C25_Witness ==
    /\ pc = "route"
    /\ ~is_payment
    /\ ~debug
    /\ upstream_said = Response(Text(<<SP, "N", "o", "t", "i", "c", "e", NL>>))
    /\ classification = NOTICE

\* the opening fence: bare or with the language tag, a line break after it
\* or none
FenceTags == { <<>>, <<"json">> }
FenceBreaks == { <<NL>>, <<>> }

\* C26: the record extract_payment_data returns for a JSON document wrapped
\* in a fenced code block, with or without the language tag and with or
\* without a line break after the opening fence, is the record it returns for
\* the document itself; an unwrapped document gives its own parse.
C26_FenceStrippingTransparent ==
    (pc = "send_payment" /\ upstream_said.kind = "response") =>
        \A d \in JsonDocs, lang \in FenceTags, nl \in FenceBreaks :
            upstream_said.text.text \in {d.text, Fenced(lang, nl, d.text)} =>
                payment_data =
                    IF d.value.kind = "object" THEN d.value ELSE EmptyDict

\* the run the claim excludes: the invoice document right after a bare
\* opening fence gave the empty record
C26_Witness ==
    /\ pc = "send_payment"
    /\ upstream_said =
         Response(Text(Fenced(<<>>, <<>>,
             <<"{currency:USD,amount:12.5,payment_type:goods,item:Widget}">>)))
    /\ payment_data = EmptyDict

\* C27: when start() has returned, whatever ended the loop, is_running is
\* false, stop() has gone through disconnect() for both accounts, and no
\* account is left with a session.
C27_ReturnLeavesNothingConnected ==
    pc = "returned" =>
        /\ ~is_running
        /\ stops = 1
        /\ \A a \in Accounts : imap[a] \in {"none", "closed"}

\* the run the claim excludes: start() has returned after an interrupt, the
\* yandex session answered the probe of disconnect() with NO, was not logged
\* out and is still open
C27_Witness ==
    /\ pc = "returned"
    /\ exc = KeyboardInterruptExc
    /\ ~is_running
    /\ stops = 1
    /\ imap[YANDEX] = "auth"
    /\ logouts[YANDEX] = 0
    /\ imap[GOOGLE] = "closed"

\* C28: an invocation of _generate_content makes one to five upstream calls,
\* and goes into another pass only after a call that raised: a call that
\* returned a response is never followed by the sleep of the handler.
C28_RetryOnlyAfterFailedCall ==
    /\ upstream_calls <= MAX_ATTEMPTS
    /\ pc \in {"route", "send_payment"} => upstream_calls >= 1
    /\ pc = "backoff" => upstream_said.kind = "raise"

\* the run the claim excludes: in debug mode the first call returned a text
\* that is not a JSON document and the loop is in its handler, about to sleep
\* and call again
C28_Witness ==
    /\ pc = "backoff"
    /\ debug
    /\ ~is_payment
    /\ upstream_calls = 1
    /\ attempt = 0
    /\ upstream_said = Response(Text(<<"{category:">>))

\* C29: a stop() call made by another thread once start() is under way (its
\* first connect() done) is not lost: from the moment that call has cleared is_running, the flag is
\* never true again, so the loop test ends the run.
C29_StopRequestNotLost ==
    spc # "off" => ~is_running

\* the run the claim excludes: stop() was called and has finished, is_running
\* is true, and the loop is in its third iteration
C29_Witness ==
    /\ spc = "done"
    /\ sraised = NoExc
    /\ is_running
    /\ iter = 2
    /\ pc = "select"
    /\ imap[YANDEX] = "auth"

\* the two steps of start() that call connect()
ConnectPcs == {"idle", "connect_yandex"}

NoMessageInHand == ~abandoned /\ pc \notin MidMessagePcs

\* mark_as_read calls for ID i of account a that returned True
MarkTrue(a, i) == deliveries[a][i].mark - deliveries[a][i].mark_false

\* C31: in a run that is not interrupted mid-message, at every point between
\* two messages each ID has had at most as many notification sends
\* (send_message or send_payment_data calls) as mark_as_read calls, an ID
\* has had more than one send only if a mark_as_read call for it returned
\* False, and once a mark_as_read call for an ID has returned True no step
\* sends for it again.
C31_SendsBoundedByMarks ==
    /\ [](NoMessageInHand =>
            \A a \in Accounts, i \in Ids :
              /\ deliveries[a][i].notify <= deliveries[a][i].mark
              /\ deliveries[a][i].notify > 1 =>
                   deliveries[a][i].mark_false >= 1)
    /\ [][~abandoned' =>
            \A a \in Accounts, i \in Ids :
              MarkTrue(a, i) >= 1 =>
                deliveries'[a][i].notify = deliveries[a][i].notify]_vars

\* message 1 of yandex was sent for in two polls, both of its mark_as_read
\* calls returned True, and it is still unseen
C31_Witness ==
    /\ NoMessageInHand
    /\ deliveries[YANDEX][1] = [notify |-> 2, mark |-> 2, mark_false |-> 0]
    /\ 1 \in unseen[YANDEX]

====
